---------------------------- MODULE Spec2Model ----------------------------
(***************************************************************************)
(* A model of two components of the storage node:                          *)
(*                                                                         *)
(*   - TxStore (node/sync/src/auto_sync/tx_store.rs): an enumerable set of *)
(*     tx sequence numbers kept in a key/value config store under the keys *)
(*     count, seq2index.<seq> and index2seq.<index>;                       *)
(*   - LogQuery (node/log_entry_sync/src/sync_manager/log_query.rs): a     *)
(*     paginated stream of logs driven by poll_next.                       *)
(*                                                                         *)
(* Option<T> values are modelled as sequences: None is << >> and Some(v)   *)
(* is <<v>>. The config store never fails a read or a commit here; U64     *)
(* additions stay far below 2^64, subtractions below 0 panic as in the     *)
(* uint crate.                                                             *)
(***************************************************************************)
EXTENDS Integers, Sequences, FiniteSets, TLC

VARIABLES
    \* ---- TxStore ----
    store,        \* the config store: a function from the keys present to values
    db_tx,        \* the caller's external ConfigTx (a sequence of writes)
    call,         \* the last TxStore call: [op, seq, batch]
    ret,          \* what that call returned: [tag, val]
    old_store,    \* the store as it was when that call started
    old_tx,       \* the external batch as it was when that call started
    \* ---- CachedTxStore ----
    cache_cap,    \* usize
    cache,        \* the HashSet<u64> behind the RwLock
    lock,         \* the RwLock around the cache: [writer, readers, queue]
    tasks,        \* per task, the wrapper call it is in, see IdleTask
    done,         \* the wrapper call that returned last, see CachedTxStoreNew
    hist,         \* add/remove calls begun and those that returned true so far
    \* ---- LogQuery ----
    provider,            \* how the provider answers get_logs, see AnyProvider
    filter,              \* [from, to]: Option<U64> each
    from_block,          \* Option<U64>
    expected_page_size,
    page_size,
    current_logs,        \* VecDeque<Log>
    last_block,          \* Option<U64>
    state,               \* LogQueryState tag
    fut,                 \* the future the state holds
    out,                 \* what the last poll_next returned
    emitted,             \* the log records returned so far, in order
    requests,            \* the get_logs windows sent to the provider, in order
    err_count,           \* how many error items poll_next has returned
    overflowed           \* the window of the last get_logs that failed with an overflow hint

cvars == <<cache_cap, cache, lock, tasks, done, hist>>
txvars == <<store, db_tx, call, ret, old_store, old_tx, cvars>>
lqvars == <<provider, filter, from_block, expected_page_size, page_size, current_logs,
            last_block, state, fut, out, emitted, requests, err_count, overflowed>>
vars == <<store, db_tx, call, ret, old_store, old_tx,
          cache_cap, cache, lock, tasks, done, hist,
          provider, filter, from_block, expected_page_size, page_size, current_logs,
          last_block, state, fut, out, emitted, requests, err_count, overflowed>>

None == << >>
Some(v) == <<v>>

(***************************************************************************)
(* Bounds of the model.                                                    *)
(***************************************************************************)
MaxSeq == 4          \* tx sequence numbers are 1..MaxSeq
MaxBatchSeq == 2     \* tx sequence numbers used with an external batch
MaxBatchLen == 6     \* writes an external batch may hold
MaxCount == 2        \* cap on the count record when batches are in play
MaxFewCount == 1     \* the same cap where the store is kept small
MaxBlock == 4        \* block numbers are 0..MaxBlock
MaxPage == 4         \* expected page sizes are 1..MaxPage
MaxRequests == 5     \* get_logs calls one query may send
MaxWidth == 2        \* widest window a width-limited provider answers: 1..MaxWidth
MaxTasks == 2        \* tasks calling one CachedTxStore
MaxCachedSeq == 3    \* tx sequence numbers given to a CachedTxStore
MaxCap == 2          \* cache_cap is 0..MaxCap
MaxCalls == 3        \* add/remove calls made on one CachedTxStore
MaxFewCalls == 2     \* the same where MaxTasks tasks make them without a batch
MaxFewTasks == 1     \* tasks where MaxCalls calls are made without a batch
MaxStored == 1       \* elements in the store a CachedTxStore is opened on

SeqNums == 1..MaxSeq
BatchSeqNums == 1..MaxBatchSeq
Blocks == 0..MaxBlock
PageSizes == 1..MaxPage
Widths == 1..MaxWidth
Tasks == 1..MaxTasks
FewTasks == 1..MaxFewTasks
CachedSeqNums == 1..MaxCachedSeq
Caps == 0..MaxCap

(***************************************************************************)
(*                               TxStore                                   *)
(***************************************************************************)
EmptyStore == [k \in {} |-> 0]

key_count == <<"count">>
key_seq_to_index(tx_seq) == <<"seq2index", tx_seq>>
key_index_to_seq(index) == <<"index2seq", index>>

\* Store::get_config_decoded: the value under the key, if any.
get_config_decoded(d, k) == IF k \in DOMAIN d THEN Some(d[k]) ELSE None

\* ConfigTx::set_config / remove_config: one write of a batch.
set_config(k, v) == [op |-> "set", key |-> k, val |-> v]
remove_config(k) == [op |-> "remove", key |-> k, val |-> 0]

\* One write applied to the store.
apply_config(d, w) ==
    IF w.op = "set"
    THEN [x \in DOMAIN d \cup {w.key} |-> IF x = w.key THEN w.val ELSE d[x]]
    ELSE [x \in DOMAIN d \ {w.key} |-> d[x]]

\* Store::exec_configs: the writes of a batch applied in order, atomically.
RECURSIVE exec_configs(_, _)
exec_configs(d, tx) ==
    IF tx = << >> THEN d
    ELSE exec_configs(apply_config(d, Head(tx)), Tail(tx))

index_of(d, tx_seq) == get_config_decoded(d, key_seq_to_index(tx_seq))

at(d, index) == get_config_decoded(d, key_index_to_seq(index))

has(d, tx_seq) == index_of(d, tx_seq) # None

count(d) ==
    LET x == get_config_decoded(d, key_count)
    IN  IF x = None THEN 0 ELSE x[1]

\* add with the count record written back unchanged.
add_keeps_count(d, tx_seq) ==
    IF has(d, tx_seq)
    THEN [ret |-> "Ok(false)", tx |-> << >>]
    ELSE LET n == count(d)
         IN  [ret |-> "Ok(true)",
              tx  |-> << set_config(key_index_to_seq(n), tx_seq),
                         set_config(key_seq_to_index(tx_seq), n),
                         set_config(key_count, n) >>]

\* The ConfigTx of an add that read the count n.
add_tx(tx_seq, n) ==
    << set_config(key_index_to_seq(n), tx_seq),
       set_config(key_seq_to_index(tx_seq), n),
       set_config(key_count, n + 1) >>

\* TxStore::add up to the commit: the result and the ConfigTx it built.
add(d, tx_seq) ==
    IF has(d, tx_seq)
    THEN [ret |-> "Ok(false)", tx |-> << >>]
    ELSE [ret |-> "Ok(true)", tx |-> add_tx(tx_seq, count(d))]

\* The ConfigTx of a remove of the element in the last slot.
remove_last_tx(tx_seq, index, n) ==
    << set_config(key_count, n - 1),
       remove_config(key_seq_to_index(tx_seq)),
       remove_config(key_index_to_seq(index)) >>

\* The ConfigTx of a remove that swaps the last element into the freed slot.
swap_tx(tx_seq, index, n, last_tx) ==
    << set_config(key_count, n - 1),
       remove_config(key_seq_to_index(tx_seq)),
       set_config(key_index_to_seq(index), last_tx),
       remove_config(key_index_to_seq(n - 1)),
       set_config(key_seq_to_index(last_tx), index) >>

\* remove with one of its steps changed: "stale_index" leaves seq2index of
\* the swapped element as it was, "keeps_last" leaves the last slot in place
\* after the swap, "no_early_return" takes an absent tx_seq to sit at index 0.
remove_with(d, tx_seq, change) ==
    IF change # "no_early_return" /\ index_of(d, tx_seq) = None
    THEN [ret |-> "Ok(false)", tx |-> << >>]
    ELSE LET index == IF index_of(d, tx_seq) = None THEN 0 ELSE index_of(d, tx_seq)[1]
             n == count(d)
         IN  IF ~(n > 0)
             THEN [ret |-> "panic", tx |-> << >>]
             ELSE IF index = n - 1
             THEN [ret |-> "Ok(true)",
                   tx  |-> << set_config(key_count, n - 1),
                              remove_config(key_seq_to_index(tx_seq)),
                              remove_config(key_index_to_seq(index)) >>]
             ELSE IF at(d, n - 1) = None
             THEN [ret |-> "panic", tx |-> << >>]
             ELSE LET last_tx == at(d, n - 1)[1]
                      full == swap_tx(tx_seq, index, n, last_tx)
                  IN  [ret |-> "Ok(true)",
                       tx  |-> CASE change = "stale_index" -> SubSeq(full, 1, 4)
                                 [] change = "keeps_last" ->
                                        SubSeq(full, 1, 3) \o SubSeq(full, 5, 5)
                                 [] OTHER -> full]

remove_stale_index(d, tx_seq) == remove_with(d, tx_seq, "stale_index")

remove_keeps_last_slot(d, tx_seq) == remove_with(d, tx_seq, "keeps_last")

remove_no_early_return(d, tx_seq) == remove_with(d, tx_seq, "no_early_return")

\* TxStore::remove up to the commit: the result and the ConfigTx it built.
\* The assert and the expect panic before anything is written.
remove(d, tx_seq) ==
    IF index_of(d, tx_seq) = None
    THEN [ret |-> "Ok(false)", tx |-> << >>]
    ELSE LET index == index_of(d, tx_seq)[1]
             n == count(d)
         IN  IF ~(n > 0)
             THEN [ret |-> "panic", tx |-> << >>]
             ELSE IF index = n - 1
             THEN [ret |-> "Ok(true)", tx |-> remove_last_tx(tx_seq, index, n)]
             ELSE IF at(d, n - 1) = None
             THEN [ret |-> "panic", tx |-> << >>]
             ELSE LET last_tx == at(d, n - 1)[1]
                  IN  [ret |-> "Ok(true)", tx |-> swap_tx(tx_seq, index, n, last_tx)]

\* gen_range(0..=count): the range taken inclusive.
gen_range_inclusive(n) == 0..n

\* gen_range(0..count): the indices the random draw can produce.
gen_range(n) == 0..(n - 1)

\* TxStore::random: every result the call can produce.
random(d) ==
    IF count(d) = 0
    THEN {[tag |-> "Ok(None)", val |-> 0]}
    ELSE {IF at(d, index) = None
          THEN [tag |-> "panic", val |-> 0]
          ELSE [tag |-> "Ok(Some)", val |-> at(d, index)[1]] : index \in gen_range(count(d))}

\* A task that is in no call. In a call: pc is where the task stands, index
\* and n what it has read of seq2index (or drawn, for random) and of the
\* count record, r the result and the ConfigTx of its TxStore call, cache0
\* the cache as the task found it under its guard.
IdleTask ==
    [pc |-> "idle", op |-> "none", seq |-> 0, batch |-> FALSE, index |-> 0, n |-> 0,
     r |-> [ret |-> "none", tx |-> << >>], cache0 |-> {}]

\* The RwLock: the task holding the write guard (0 when none does), the
\* tasks holding read guards, and the tasks waiting, first come first.
FreeLock == [writer |-> 0, readers |-> {}, queue |-> << >>]

\* CachedTxStore::new(name, cap); no task has called it yet. done records
\* the call that returned last: its result ret and value val, the cache
\* before (cache0) and after it (cache1), and for a random that returned
\* Some(v) whether the store had v at that moment (in_store).
CachedTxStoreNew(cap) ==
    /\ cache_cap = cap
    /\ cache = {}
    /\ lock = FreeLock
    /\ tasks = [t \in Tasks |-> IdleTask]
    /\ done = [op |-> "new", seq |-> 0, batch |-> FALSE, ret |-> "new", val |-> << >>,
               cache0 |-> {}, cache1 |-> {}, in_store |-> FALSE]
    /\ hist = [calls |-> 0, adds |-> 0, removes |-> 0]

TxInit ==
    /\ store = EmptyStore
    /\ db_tx = << >>
    /\ call = [op |-> "new", seq |-> 0, batch |-> FALSE]
    /\ ret = [tag |-> "new", val |-> 0]
    /\ old_store = EmptyStore
    /\ old_tx = << >>

\* The bookkeeping of a call: what was called and what the state was.
\* No TxStore call touches a LogQuery or a CachedTxStore's cache.
Called(op, tx_seq, batch) ==
    /\ call' = [op |-> op, seq |-> tx_seq, batch |-> batch]
    /\ old_store' = store
    /\ old_tx' = db_tx
    /\ UNCHANGED <<cvars, lqvars>>

\* add(store, None, tx_seq): the batch is committed at once.
TxStoreAdd(tx_seq) ==
    LET r == add(store, tx_seq)
    IN  /\ store' = exec_configs(store, r.tx)
        /\ ret' = [tag |-> r.ret, val |-> 0]
        /\ Called("add", tx_seq, FALSE)
        /\ UNCHANGED db_tx

\* remove(store, None, tx_seq): the batch is committed at once.
TxStoreRemove(tx_seq) ==
    LET r == remove(store, tx_seq)
    IN  /\ store' = exec_configs(store, r.tx)
        /\ ret' = [tag |-> r.ret, val |-> 0]
        /\ Called("remove", tx_seq, FALSE)
        /\ UNCHANGED db_tx

\* random(store)
TxStoreRandom ==
    /\ \E r \in random(store) : ret' = r
    /\ Called("random", 0, FALSE)
    /\ UNCHANGED <<store, db_tx>>

\* The writes are appended to the caller's batch and committed as well.
TxStoreAddBatchCommits(tx_seq) ==
    LET r == add(store, tx_seq)
    IN  /\ count(store) < MaxCount
        /\ Len(db_tx) + Len(r.tx) <= MaxBatchLen
        /\ db_tx' = db_tx \o r.tx
        /\ store' = exec_configs(store, r.tx)
        /\ ret' = [tag |-> r.ret, val |-> 0]
        /\ Called("add", tx_seq, TRUE)

\* add(store, Some(db_tx), tx_seq): the writes are appended to the caller's batch.
TxStoreAddBatch(tx_seq) ==
    LET r == add(store, tx_seq)
    IN  /\ count(store) < MaxCount
        /\ Len(db_tx) + Len(r.tx) <= MaxBatchLen
        /\ db_tx' = db_tx \o r.tx
        /\ ret' = [tag |-> r.ret, val |-> 0]
        /\ Called("add", tx_seq, TRUE)
        /\ UNCHANGED store

\* remove(store, Some(db_tx), tx_seq): the writes are appended to the caller's batch.
TxStoreRemoveBatch(tx_seq) ==
    LET r == remove(store, tx_seq)
    IN  /\ Len(db_tx) + Len(r.tx) <= MaxBatchLen
        /\ db_tx' = db_tx \o r.tx
        /\ ret' = [tag |-> r.ret, val |-> 0]
        /\ Called("remove", tx_seq, TRUE)
        /\ UNCHANGED store

\* The caller commits its batch.
CommitBatch ==
    /\ db_tx # << >>
    /\ store' = exec_configs(store, db_tx)
    /\ db_tx' = << >>
    /\ ret' = [tag |-> "committed", val |-> 0]
    /\ Called("commit", 0, TRUE)


(***************************************************************************)
(* CachedTxStore called by several tasks. A call is a run of steps of its  *)
(* task: begin, take the guard (cache_cap > 0 only), each read TxStore     *)
(* makes of the store, TxStore's commit, the cache update and return.      *)
(* Steps of different tasks interleave as the lock allows, and the         *)
(* caller's commit of its batch is outside the lock.                       *)
(***************************************************************************)

\* Where a call stands once it is inside TxStore (or, for a guarded random,
\* at the cache).
FirstStep(op) ==
    CASE op = "add"    -> "has"
      [] op = "remove" -> "index"
      [] op = "random" -> IF cache_cap = 0 THEN "count" ELSE "pick"
      [] op = "count"  -> "count"

\* A call begins: with cache_cap = 0 it delegates at once, else it queues
\* for its guard. A batch is a &mut ConfigTx, so one call at a time has it.
\* MaxCalls bounds the calls to add and remove.
CachedBegin(t, op, tx_seq, batch) ==
    /\ tasks[t].pc = "idle"
    /\ op \in {"add", "remove"} => hist.calls < MaxCalls
    /\ batch => \A u \in Tasks : tasks[u].pc = "idle" \/ ~tasks[u].batch
    /\ tasks' = [tasks EXCEPT ![t] =
                    [IdleTask EXCEPT !.pc = IF cache_cap = 0 THEN FirstStep(op) ELSE "lock",
                                     !.op = op, !.seq = tx_seq, !.batch = batch]]
    /\ lock' = IF cache_cap = 0 THEN lock ELSE [lock EXCEPT !.queue = Append(@, t)]
    /\ hist' = [hist EXCEPT !.calls = IF op \in {"add", "remove"} THEN @ + 1 ELSE @]
    /\ UNCHANGED <<store, db_tx, call, ret, old_store, old_tx, cache_cap, cache, done>>
    /\ UNCHANGED lqvars

\* The queue of the lock without the task t.
Unqueued(t) == SelectSeq(lock.queue, LAMBDA u : u # t)

\* The write guard is taken without waiting for anybody.
CachedWriteLockNoWait(t) ==
    /\ tasks[t].pc = "lock"
    /\ tasks[t].op \in {"add", "remove"}
    /\ lock' = [lock EXCEPT !.writer = t, !.queue = Unqueued(t)]
    /\ tasks' = [tasks EXCEPT ![t].pc = FirstStep(tasks[t].op), ![t].cache0 = cache]
    /\ UNCHANGED <<store, db_tx, call, ret, old_store, old_tx,
                   cache_cap, cache, done, hist>>
    /\ UNCHANGED lqvars

\* self.cache.write().await completes: the task is first in the queue and
\* nobody holds a guard.
CachedWriteLock(t) ==
    /\ tasks[t].pc = "lock"
    /\ tasks[t].op \in {"add", "remove"}
    /\ lock.queue # << >> /\ Head(lock.queue) = t
    /\ lock.writer = 0 /\ lock.readers = {}
    /\ lock' = [lock EXCEPT !.writer = t, !.queue = Unqueued(t)]
    /\ tasks' = [tasks EXCEPT ![t].pc = FirstStep(tasks[t].op), ![t].cache0 = cache]
    /\ UNCHANGED <<store, db_tx, call, ret, old_store, old_tx,
                   cache_cap, cache, done, hist>>
    /\ UNCHANGED lqvars

\* self.cache.read().await completes: the task is first in the queue and
\* nobody holds the write guard.
CachedReadLock(t) ==
    /\ tasks[t].pc = "lock"
    /\ tasks[t].op \in {"random", "count"}
    /\ lock.queue # << >> /\ Head(lock.queue) = t
    /\ lock.writer = 0
    /\ lock' = [lock EXCEPT !.readers = @ \cup {t}, !.queue = Unqueued(t)]
    /\ tasks' = [tasks EXCEPT ![t].pc = FirstStep(tasks[t].op), ![t].cache0 = cache]
    /\ UNCHANGED <<store, db_tx, call, ret, old_store, old_tx,
                   cache_cap, cache, done, hist>>
    /\ UNCHANGED lqvars

\* A step of a call that changes the task alone.
CachedStep(t, task) ==
    /\ tasks' = [tasks EXCEPT ![t] = task]
    /\ UNCHANGED <<store, db_tx, call, ret, old_store, old_tx,
                   cache_cap, cache, lock, done, hist>>
    /\ UNCHANGED lqvars

\* TxStore::add, self.has(store, tx_seq): present is Ok(false).
CachedAddHas(t) ==
    /\ tasks[t].pc = "has"
    /\ CachedStep(t, IF has(store, tasks[t].seq)
                     THEN [tasks[t] EXCEPT !.pc = "finish",
                                           !.r = [ret |-> "Ok(false)", tx |-> << >>]]
                     ELSE [tasks[t] EXCEPT !.pc = "count"])

\* TxStore::add, self.count(store) and the ConfigTx built from it.
CachedAddCount(t) ==
    /\ tasks[t].pc = "count"
    /\ tasks[t].op = "add"
    /\ CachedStep(t, [tasks[t] EXCEPT !.pc = "commit", !.n = count(store),
                                      !.r = [ret |-> "Ok(true)",
                                             tx  |-> add_tx(tasks[t].seq, count(store))]])

\* TxStore::remove, self.index_of(store, tx_seq): absent is Ok(false).
CachedRemoveIndex(t) ==
    /\ tasks[t].pc = "index"
    /\ CachedStep(t, IF index_of(store, tasks[t].seq) = None
                     THEN [tasks[t] EXCEPT !.pc = "finish",
                                           !.r = [ret |-> "Ok(false)", tx |-> << >>]]
                     ELSE [tasks[t] EXCEPT !.pc = "count",
                                           !.index = index_of(store, tasks[t].seq)[1]])

\* TxStore::remove, self.count(store): the assert, and the ConfigTx when the
\* element is in the last slot.
CachedRemoveCount(t) ==
    LET n == count(store)
    IN  /\ tasks[t].pc = "count"
        /\ tasks[t].op = "remove"
        /\ CachedStep(t, IF n = 0
                         THEN [tasks[t] EXCEPT !.pc = "finish",
                                               !.r = [ret |-> "panic", tx |-> << >>]]
                         ELSE IF tasks[t].index = n - 1
                         THEN [tasks[t] EXCEPT !.pc = "commit", !.n = n,
                                               !.r = [ret |-> "Ok(true)",
                                                      tx  |-> remove_last_tx(tasks[t].seq,
                                                                             tasks[t].index, n)]]
                         ELSE [tasks[t] EXCEPT !.pc = "last", !.n = n])

\* TxStore::remove, self.at(store, count - 1) and the expect on it, then the
\* ConfigTx that moves the last element into the hole.
CachedRemoveLast(t) ==
    LET last_tx == at(store, tasks[t].n - 1)
    IN  /\ tasks[t].pc = "last"
        /\ CachedStep(t, IF last_tx = None
                         THEN [tasks[t] EXCEPT !.pc = "finish",
                                               !.r = [ret |-> "panic", tx |-> << >>]]
                         ELSE [tasks[t] EXCEPT !.pc = "commit",
                                               !.r = [ret |-> "Ok(true)",
                                                      tx  |-> swap_tx(tasks[t].seq, tasks[t].index,
                                                                      tasks[t].n, last_tx[1])]])

\* TxStore::add / remove ends: the ConfigTx goes to the caller's batch or is
\* committed.
CachedCommit(t) ==
    /\ tasks[t].pc = "commit"
    /\ IF tasks[t].batch
       THEN db_tx' = db_tx \o tasks[t].r.tx /\ UNCHANGED store
       ELSE store' = exec_configs(store, tasks[t].r.tx) /\ UNCHANGED db_tx
    /\ tasks' = [tasks EXCEPT ![t].pc = "finish"]
    /\ UNCHANGED <<call, ret, old_store, old_tx, cache_cap, cache, lock, done, hist>>
    /\ UNCHANGED lqvars

\* What a returning call leaves behind: the record of the call, its guard
\* dropped (a panic unwinds and drops it too), the task idle.
CachedReturn(t, r, v, in_store, new_cache) ==
    /\ cache' = new_cache
    /\ lock' = [lock EXCEPT !.writer = IF @ = t THEN 0 ELSE @, !.readers = @ \ {t}]
    /\ done' = [op |-> tasks[t].op, seq |-> tasks[t].seq, batch |-> tasks[t].batch,
                ret |-> r, val |-> v,
                cache0 |-> tasks[t].cache0, cache1 |-> new_cache, in_store |-> in_store]
    /\ tasks' = [tasks EXCEPT ![t] = IdleTask]
    /\ UNCHANGED <<store, db_tx, call, ret, old_store, old_tx, cache_cap>>
    /\ UNCHANGED lqvars

\* The cache is left one over its capacity.
CachedAddFinishNoEvict(t) ==
    LET added == tasks[t].r.ret = "Ok(true)"
    IN  /\ tasks[t].pc = "finish"
        /\ tasks[t].op = "add"
        /\ hist' = [hist EXCEPT !.adds = IF added THEN @ + 1 ELSE @]
        /\ CachedReturn(t, tasks[t].r.ret, << >>, FALSE,
                        IF cache_cap > 0 /\ added THEN cache \cup {tasks[t].seq} ELSE cache)

\* add returns: the tx_seq added is put in the cache, and when that takes
\* the cache over its capacity one element chosen from it is removed.
CachedAddFinish(t) ==
    LET added == tasks[t].r.ret = "Ok(true)"
        inserted == cache \cup {tasks[t].seq}
    IN  /\ tasks[t].pc = "finish"
        /\ tasks[t].op = "add"
        /\ hist' = [hist EXCEPT !.adds = IF added THEN @ + 1 ELSE @]
        /\ IF cache_cap > 0 /\ added
           THEN IF Cardinality(inserted) > cache_cap
                THEN \E popped \in inserted :
                        CachedReturn(t, tasks[t].r.ret, << >>, FALSE, inserted \ {popped})
                ELSE CachedReturn(t, tasks[t].r.ret, << >>, FALSE, inserted)
           ELSE CachedReturn(t, tasks[t].r.ret, << >>, FALSE, cache)

\* remove returns: the tx_seq removed is taken out of the cache.
CachedRemoveFinish(t) ==
    LET removed == tasks[t].r.ret = "Ok(true)"
    IN  /\ tasks[t].pc = "finish"
        /\ tasks[t].op = "remove"
        /\ hist' = [hist EXCEPT !.removes = IF removed THEN @ + 1 ELSE @]
        /\ CachedReturn(t, tasks[t].r.ret, << >>, FALSE,
                        IF cache_cap > 0 /\ removed THEN cache \ {tasks[t].seq} ELSE cache)

\* A call that only reads returns.
CachedReaderReturn(t, r, v, in_store) ==
    /\ CachedReturn(t, r, v, in_store, cache)
    /\ UNCHANGED hist

\* count(store): TxStore::count and the size of the cache (0 without one).
CachedCount(t) ==
    /\ tasks[t].pc = "count"
    /\ tasks[t].op = "count"
    /\ CachedReaderReturn(t, "Ok",
                          <<count(store), IF cache_cap = 0 THEN 0 ELSE Cardinality(cache)>>,
                          FALSE)

\* random(store) under the read guard: an element of the cache if it has
\* one, else on to TxStore::random.
CachedRandomPick(t) ==
    /\ tasks[t].pc = "pick"
    /\ IF cache # {}
       THEN \E v \in cache : CachedReaderReturn(t, "Ok(Some)", <<v>>, has(store, v))
       ELSE CachedStep(t, [tasks[t] EXCEPT !.pc = "count"])

\* TxStore::random, self.count(store): None when it is 0, else an index is
\* drawn below it.
CachedRandomCount(t) ==
    LET n == count(store)
    IN  /\ tasks[t].pc = "count"
        /\ tasks[t].op = "random"
        /\ IF n = 0
           THEN CachedReaderReturn(t, "Ok(None)", << >>, FALSE)
           ELSE \E index \in gen_range(n) :
                   CachedStep(t, [tasks[t] EXCEPT !.pc = "at", !.n = n, !.index = index])

\* TxStore::random, self.at(store, index) and the expect on it.
CachedRandomAt(t) ==
    LET tx_seq == at(store, tasks[t].index)
    IN  /\ tasks[t].pc = "at"
        /\ IF tx_seq = None
           THEN CachedReaderReturn(t, "panic", << >>, FALSE)
           ELSE CachedReaderReturn(t, "Ok(Some)", tx_seq, has(store, tx_seq[1]))

\* The caller commits its batch; no call has the batch at that moment.
CachedCommitBatch ==
    /\ \A t \in Tasks : tasks[t].pc = "idle" \/ ~tasks[t].batch
    /\ CommitBatch

\* The caller drops its batch uncommitted.
CachedDropBatch ==
    /\ \A t \in Tasks : tasks[t].pc = "idle" \/ ~tasks[t].batch
    /\ db_tx # << >>
    /\ db_tx' = << >>
    /\ UNCHANGED <<store, call, ret, old_store, old_tx, cvars>>
    /\ UNCHANGED lqvars


(***************************************************************************)
(*                               LogQuery                                  *)
(***************************************************************************)
\* The chain the provider serves: block b holds (b + 1) % 3 logs, and a log
\* is <<block, position in the block>>.
LogsInBlock(b) == [j \in 1..((b + 1) % 3) |-> <<b, j>>]

\* Provider::get_logs on a window: the logs of blocks lo..hi in order (none
\* when lo > hi).
RECURSIVE LogsOfRange(_, _)
LogsOfRange(lo, hi) ==
    IF lo > hi THEN << >>
    ELSE LogsInBlock(lo) \o LogsOfRange(lo + 1, hi)

\* Provider::get_logs on a filter with no from-block: the logs from some
\* block on.
UnfilteredReplies == {LogsOfRange(b, MaxBlock) : b \in Blocks}

\* What the provider's errors say.
TOO_MANY_LOGS_ERROR_MSG == {"exceeds the max limit of", "too large with more than"}
OtherErrors == {"connection reset"}

\* Filter::is_paginatable: a from-block is set.
is_paginatable(f) == f.from # None

min(a, b) == IF a < b THEN a ELSE b

\* from_block + page_size - 1 on U64: the subtraction panics below 0.
page_end_underflows(from, size) == from + size < 1
page_end(from, size) == from + size - 1

\* The future a state holds. kind: "ok_number" is async { Ok(number) },
\* "get_block_number" the provider's call, "get_logs" the sleep followed by
\* the provider's call. stage: "new" (never polled), "sleep", "rpc" (the
\* request is with the provider), "done" (completed). from_block is the
\* block LoadLogs keeps to resume from; req is the window asked for, None for
\* the filter as given. slept: the future has awaited sleep(delay).
NoFut ==
    [kind |-> "none", stage |-> "done", from_block |-> None, req |-> None, num |-> 0,
     slept |-> FALSE]
OkNumberFut(n) ==
    [kind |-> "ok_number", stage |-> "new", from_block |-> None, req |-> None, num |-> n,
     slept |-> FALSE]
GetBlockNumberFut ==
    [kind |-> "get_block_number", stage |-> "new", from_block |-> None, req |-> None,
     num |-> 0, slept |-> FALSE]
GetLogsFut(from, req) ==
    [kind |-> "get_logs", stage |-> "sleep", from_block |-> from, req |-> req, num |-> 0,
     slept |-> FALSE]

Pending == [tag |-> "Pending", log |-> None]
Ready(tag) == [tag |-> tag, log |-> None]
ReadyLog(log) == [tag |-> "Log", log |-> Some(log)]

\* LogQuery::new(provider, filter, delay).with_page_size(p)
LogQueryNew(f, p) ==
    /\ filter = f
    /\ from_block = f.from
    /\ expected_page_size = p
    /\ page_size = p
    /\ current_logs = << >>
    /\ last_block = None
    /\ state = "Initial"
    /\ fut = NoFut
    /\ out = [tag |-> "new", log |-> None]
    /\ emitted = << >>
    /\ requests = << >>
    /\ err_count = 0
    /\ overflowed = None

\* A provider that answers every get_logs as it likes, and one that answers
\* the windows of at most w blocks and rejects wider ones with an overflow
\* hint.
AnyProvider == None
WidthProvider(w) == Some(w)

\* LogQuery::new alone: the page size it starts with.
DEFAULT_PAGE_SIZE == 10000

\* A query that was made and is never polled.
LqIdle ==
    LogQueryNew([from |-> None, to |-> None], DEFAULT_PAGE_SIZE) /\ provider = AnyProvider

\* A panic unwinds the consumer: nothing polls the query afterwards.
Pollable == out.tag # "panic"

\* rewake_with_new_state!: the new state, a wake, Poll::Pending.
rewake_with_new_state(new_state, new_fut) ==
    /\ state' = new_state
    /\ fut' = new_fut
    /\ out' = Pending

\* poll_next, state Initial.
PollInitial ==
    /\ Pollable
    /\ state = "Initial"
    /\ IF ~is_paginatable(filter)
       THEN rewake_with_new_state("LoadLogs", GetLogsFut(None, None))
       ELSE IF filter.to # None
       THEN rewake_with_new_state("LoadLastBlock", OkNumberFut(filter.to[1]))
       ELSE rewake_with_new_state("LoadLastBlock", GetBlockNumberFut)
    /\ UNCHANGED <<provider, filter, from_block, expected_page_size, page_size, current_logs,
                   last_block, emitted, requests, err_count, overflowed>>
    /\ UNCHANGED txvars

\* poll_next, state LoadLastBlock or LoadLogs, the future not ready: the
\* sleep has not elapsed, or the provider has not answered.
PollPending ==
    /\ Pollable
    /\ state \in {"LoadLastBlock", "LoadLogs"}
    /\ fut.stage \in {"sleep", "rpc"}
    /\ out' = Pending
    /\ UNCHANGED <<provider, filter, from_block, expected_page_size, page_size, current_logs,
                   last_block, state, fut, emitted, requests, err_count, overflowed>>
    /\ UNCHANGED txvars

\* poll_next, state LoadLastBlock or LoadLogs: the future goes on to its
\* provider call (for get_logs, the sleep has elapsed) and waits for the answer.
PollSendRequestUpTo(cap) ==
    /\ Pollable
    /\ state \in {"LoadLastBlock", "LoadLogs"}
    /\ \/ fut.kind = "get_logs" /\ fut.stage = "sleep"
       \/ fut.kind = "get_block_number" /\ fut.stage = "new"
    /\ Len(requests) < cap
    /\ fut' = [fut EXCEPT !.stage = "rpc", !.slept = (fut.kind = "get_logs")]
    /\ requests' = IF fut.kind = "get_logs" THEN Append(requests, fut.req) ELSE requests
    /\ out' = Pending
    /\ UNCHANGED <<provider, filter, from_block, expected_page_size, page_size, current_logs,
                   last_block, state, emitted, err_count, overflowed>>
    /\ UNCHANGED txvars

\* The same, the model following at most MaxRequests get_logs calls.
PollSendRequest == PollSendRequestUpTo(MaxRequests)

\* The numbers the LoadLastBlock future can complete with.
LastBlockReplies == IF fut.kind = "ok_number" THEN {fut.num} ELSE Blocks

LastBlockReady ==
    \/ fut.kind = "ok_number" /\ fut.stage = "new"
    \/ fut.kind = "get_block_number" /\ fut.stage = "rpc"

\* poll_next, state LoadLastBlock, the future completes with Ok(last_block).
PollLoadLastBlockOk ==
    /\ Pollable
    /\ state = "LoadLastBlock"
    /\ LastBlockReady
    /\ \E n \in LastBlockReplies :
          LET from == filter.from[1]
              to_block == min(page_end(from, page_size), n)
          IN  IF page_end_underflows(from, page_size)
              THEN /\ out' = Ready("panic")
                   /\ last_block' = Some(n)
                   /\ fut' = [fut EXCEPT !.stage = "done"]
                   /\ UNCHANGED <<from_block, state>>
              ELSE /\ last_block' = Some(n)
                   /\ from_block' = Some(to_block + 1)
                   /\ rewake_with_new_state("LoadLogs",
                                            GetLogsFut(Some(from), Some(<<from, to_block>>)))
    /\ UNCHANGED <<provider, filter, expected_page_size, page_size, current_logs,
                   emitted, requests, err_count, overflowed>>
    /\ UNCHANGED txvars

\* poll_next, state LoadLastBlock, the future completes with Err.
PollLoadLastBlockErr ==
    /\ Pollable
    /\ state = "LoadLastBlock"
    /\ fut.kind = "get_block_number" /\ fut.stage = "rpc"
    /\ fut' = [fut EXCEPT !.stage = "done"]
    /\ out' = Ready("LoadLastBlockError")
    /\ err_count' = err_count + 1
    /\ UNCHANGED <<provider, filter, from_block, expected_page_size, page_size, current_logs,
                   last_block, state, emitted, requests, overflowed>>
    /\ UNCHANGED txvars

\* The logs the provider answers a get_logs call with.
LogsReplies ==
    IF fut.req = None THEN UnfilteredReplies
    ELSE {LogsOfRange(fut.req[1][1], fut.req[1][2])}

\* poll_next, state LoadLogs, the future completes with Ok(logs).
PollLoadLogsOk ==
    /\ Pollable
    /\ state = "LoadLogs"
    /\ fut.stage = "rpc"
    /\ \E logs \in LogsReplies : current_logs' = logs
    /\ page_size' = expected_page_size
    /\ rewake_with_new_state("Consume", NoFut)
    /\ UNCHANGED <<provider, filter, from_block, expected_page_size, last_block,
                   emitted, requests, err_count, overflowed>>
    /\ UNCHANGED txvars

\* The window is asked for again with the page size as it was.
PollLoadLogsOverflowKeepsPage ==
    /\ Pollable
    /\ state = "LoadLogs"
    /\ fut.stage = "rpc"
    /\ \E err \in TOO_MANY_LOGS_ERROR_MSG :
          overflowed' = Some([req |-> fut.req, page_size |-> page_size,
                              sent |-> Len(requests), err |-> err])
    /\ from_block' = fut.from_block
    /\ rewake_with_new_state("Consume", NoFut)
    /\ UNCHANGED <<provider, filter, expected_page_size, page_size, current_logs,
                   last_block, emitted, requests, err_count>>
    /\ UNCHANGED txvars

\* poll_next, state LoadLogs, the future completes with an Err whose text
\* holds one of TOO_MANY_LOGS_ERROR_MSG.
PollLoadLogsOverflow ==
    /\ Pollable
    /\ state = "LoadLogs"
    /\ fut.stage = "rpc"
    /\ \E err \in TOO_MANY_LOGS_ERROR_MSG :
          overflowed' = Some([req |-> fut.req, page_size |-> page_size,
                              sent |-> Len(requests), err |-> err])
    /\ from_block' = fut.from_block
    /\ page_size' = page_size \div 2
    /\ rewake_with_new_state("Consume", NoFut)
    /\ UNCHANGED <<provider, filter, expected_page_size, current_logs, last_block,
                   emitted, requests, err_count>>
    /\ UNCHANGED txvars

\* The error is returned and the query goes back to Consume to try again.
PollLoadLogsErrResumes ==
    /\ Pollable
    /\ state = "LoadLogs"
    /\ fut.stage = "rpc"
    /\ \E err \in OtherErrors : out' = Ready("LoadLogsError")
    /\ state' = "Consume"
    /\ fut' = NoFut
    /\ from_block' = fut.from_block
    /\ err_count' = err_count + 1
    /\ UNCHANGED <<provider, filter, expected_page_size, page_size, current_logs,
                   last_block, emitted, requests, overflowed>>
    /\ UNCHANGED txvars

\* poll_next, state LoadLogs, the future completes with any other Err.
PollLoadLogsErr ==
    /\ Pollable
    /\ state = "LoadLogs"
    /\ fut.stage = "rpc"
    /\ \E err \in OtherErrors : out' = Ready("LoadLogsError")
    /\ fut' = [fut EXCEPT !.stage = "done"]
    /\ err_count' = err_count + 1
    /\ UNCHANGED <<provider, filter, from_block, expected_page_size, page_size, current_logs,
                   last_block, state, emitted, requests, overflowed>>
    /\ UNCHANGED txvars

\* The number of blocks of the window a get_logs future asked for.
WindowWidth(req) == req[1][2] - req[1][1] + 1

\* The width-limited provider answers a window within its limit.
PollLoadLogsOkWithin ==
    /\ provider # AnyProvider
    /\ fut.req # None
    /\ WindowWidth(fut.req) <= provider[1]
    /\ PollLoadLogsOk

\* The width-limited provider rejects a window beyond its limit with an
\* overflow hint.
PollLoadLogsOverflowBeyond ==
    /\ provider # AnyProvider
    /\ fut.req # None
    /\ WindowWidth(fut.req) > provider[1]
    /\ PollLoadLogsOverflow

\* poll_next, state LoadLastBlock or LoadLogs, after the future completed
\* with an error: an async block polled after completion panics.
PollResumedAfterCompletion ==
    /\ Pollable
    /\ state \in {"LoadLastBlock", "LoadLogs"}
    /\ fut.stage = "done"
    /\ out' = Ready("panic")
    /\ UNCHANGED <<provider, filter, from_block, expected_page_size, page_size, current_logs,
                   last_block, state, fut, emitted, requests, err_count, overflowed>>
    /\ UNCHANGED txvars

\* The buffer is emptied from its back.
PollConsumeLogFromBack ==
    /\ Pollable
    /\ state = "Consume"
    /\ current_logs # << >>
    /\ out' = ReadyLog(current_logs[Len(current_logs)])
    /\ current_logs' = SubSeq(current_logs, 1, Len(current_logs) - 1)
    /\ emitted' = Append(emitted, current_logs[Len(current_logs)])
    /\ UNCHANGED <<provider, filter, from_block, expected_page_size, page_size,
                   last_block, state, fut, requests, err_count, overflowed>>
    /\ UNCHANGED txvars

\* poll_next, state Consume, a log is buffered.
PollConsumeLog ==
    /\ Pollable
    /\ state = "Consume"
    /\ current_logs # << >>
    /\ out' = ReadyLog(Head(current_logs))
    /\ current_logs' = Tail(current_logs)
    /\ emitted' = Append(emitted, Head(current_logs))
    /\ UNCHANGED <<provider, filter, from_block, expected_page_size, page_size,
                   last_block, state, fut, requests, err_count, overflowed>>
    /\ UNCHANGED txvars

\* poll_next, state Consume, the buffer empty and nothing left to load.
PollConsumeEnd ==
    /\ Pollable
    /\ state = "Consume"
    /\ current_logs = << >>
    /\ \/ ~is_paginatable(filter)
       \/ /\ is_paginatable(filter)
          /\ ~page_end_underflows(from_block[1], page_size)
          /\ from_block[1] > last_block[1]
    /\ out' = Ready("End")
    /\ UNCHANGED <<provider, filter, from_block, expected_page_size, page_size, current_logs,
                   last_block, state, fut, emitted, requests, err_count, overflowed>>
    /\ UNCHANGED txvars

\* The next page is asked for and the cursor left on its last block.
PollConsumeNextPageOverlap ==
    /\ Pollable
    /\ state = "Consume"
    /\ current_logs = << >>
    /\ is_paginatable(filter)
    /\ ~page_end_underflows(from_block[1], page_size)
    /\ ~(from_block[1] > last_block[1])
    /\ LET from == from_block[1]
           to_block == min(page_end(from, page_size), last_block[1])
       IN  /\ from_block' = Some(IF to_block > from THEN to_block ELSE to_block + 1)
           /\ rewake_with_new_state("LoadLogs",
                                    GetLogsFut(Some(from), Some(<<from, to_block>>)))
    /\ UNCHANGED <<provider, filter, expected_page_size, page_size, current_logs,
                   last_block, emitted, requests, err_count, overflowed>>
    /\ UNCHANGED txvars

\* poll_next, state Consume, the buffer empty: the next page is asked for.
PollConsumeNextPage ==
    /\ Pollable
    /\ state = "Consume"
    /\ current_logs = << >>
    /\ is_paginatable(filter)
    /\ ~page_end_underflows(from_block[1], page_size)
    /\ ~(from_block[1] > last_block[1])
    /\ LET from == from_block[1]
           to_block == min(page_end(from, page_size), last_block[1])
       IN  /\ from_block' = Some(to_block + 1)
           /\ rewake_with_new_state("LoadLogs",
                                    GetLogsFut(Some(from), Some(<<from, to_block>>)))
    /\ UNCHANGED <<provider, filter, expected_page_size, page_size, current_logs,
                   last_block, emitted, requests, err_count, overflowed>>
    /\ UNCHANGED txvars

\* poll_next, state Consume, the buffer empty: from_block + page_size - 1
\* underflows and panics.
PollConsumeUnderflow ==
    /\ Pollable
    /\ state = "Consume"
    /\ current_logs = << >>
    /\ is_paginatable(filter)
    /\ page_end_underflows(from_block[1], page_size)
    /\ out' = Ready("panic")
    /\ UNCHANGED <<provider, filter, from_block, expected_page_size, page_size, current_logs,
                   last_block, state, fut, emitted, requests, err_count, overflowed>>
    /\ UNCHANGED txvars

(***************************************************************************)
(* Serialized TxStore calls, each committed at once.                       *)
(***************************************************************************)
InitTx == TxInit /\ CachedTxStoreNew(0) /\ LqIdle

NextTx ==
    \/ \E tx_seq \in SeqNums : TxStoreAdd(tx_seq)
    \/ \E tx_seq \in SeqNums : TxStoreRemove(tx_seq)
    \/ TxStoreRandom

SpecTx == InitTx /\ [][NextTx]_vars

(***************************************************************************)
(* TxStore calls of one caller, with the caller's batch or without; the     *)
(* caller commits its batch when it likes. A call without the batch        *)
(* commits its own writes and leaves the batch as it is.                   *)
(***************************************************************************)
\* add(store, None, tx_seq) while the count record is below MaxCount.
TxStoreAddUpTo(tx_seq) ==
    /\ count(store) < MaxCount
    /\ TxStoreAdd(tx_seq)

NextTxBatch ==
    \/ \E tx_seq \in BatchSeqNums : TxStoreAddUpTo(tx_seq)
    \/ \E tx_seq \in BatchSeqNums : TxStoreRemove(tx_seq)
    \/ TxStoreRandom
    \/ \E tx_seq \in BatchSeqNums : TxStoreAddBatch(tx_seq)
    \/ \E tx_seq \in BatchSeqNums : TxStoreRemoveBatch(tx_seq)
    \/ CommitBatch

SpecTxBatch == InitTx /\ [][NextTxBatch]_vars

(***************************************************************************)
(* The same calls, adds made while the count record is below MaxFewCount.  *)
(***************************************************************************)
TxStoreAddFew(tx_seq) ==
    /\ count(store) < MaxFewCount
    /\ TxStoreAdd(tx_seq)

TxStoreAddBatchFew(tx_seq) ==
    /\ count(store) < MaxFewCount
    /\ TxStoreAddBatch(tx_seq)

NextTxBatchFew ==
    \/ \E tx_seq \in BatchSeqNums : TxStoreAddFew(tx_seq)
    \/ \E tx_seq \in BatchSeqNums : TxStoreRemove(tx_seq)
    \/ TxStoreRandom
    \/ \E tx_seq \in BatchSeqNums : TxStoreAddBatchFew(tx_seq)
    \/ \E tx_seq \in BatchSeqNums : TxStoreRemoveBatch(tx_seq)
    \/ CommitBatch

SpecTxBatchFew == InitTx /\ [][NextTxBatchFew]_vars

(***************************************************************************)
(* A CachedTxStore of any capacity 0..MaxCap on an empty store.            *)
(***************************************************************************)
InitCached ==
    /\ TxInit
    /\ \E cap \in Caps : CachedTxStoreNew(cap)
    /\ LqIdle

(***************************************************************************)
(* A CachedTxStore of any capacity 0..MaxCap, opened on a store that       *)
(* earlier adds left with 0..MaxStored elements, called by MaxTasks tasks: *)
(* add and remove without a batch, MaxFewCalls of them in all, and count.  *)
(***************************************************************************)
RECURSIVE Stored(_)
\* The store after add(1), ..., add(k), each committed.
Stored(k) ==
    IF k = 0 THEN EmptyStore
    ELSE exec_configs(Stored(k - 1), add(Stored(k - 1), k).tx)

InitCachedStored ==
    /\ \E k \in 0..MaxStored : store = Stored(k) /\ old_store = Stored(k)
    /\ db_tx = << >>
    /\ call = [op |-> "new", seq |-> 0, batch |-> FALSE]
    /\ ret = [tag |-> "new", val |-> 0]
    /\ old_tx = << >>
    /\ \E cap \in Caps : CachedTxStoreNew(cap)
    /\ LqIdle

CachedBeginFew(t, op, tx_seq) ==
    /\ hist.calls < MaxFewCalls
    /\ CachedBegin(t, op, tx_seq, FALSE)

\* A step of task t inside a call to add, remove or count.
CachedCallStep(t) ==
    \/ CachedWriteLock(t)
    \/ CachedReadLock(t)
    \/ CachedAddHas(t)
    \/ CachedAddCount(t)
    \/ CachedRemoveIndex(t)
    \/ CachedRemoveCount(t)
    \/ CachedRemoveLast(t)
    \/ CachedCommit(t)
    \/ CachedAddFinish(t)
    \/ CachedRemoveFinish(t)
    \/ CachedCount(t)

NextCached ==
    \/ \E t \in Tasks, tx_seq \in CachedSeqNums : CachedBeginFew(t, "add", tx_seq)
    \/ \E t \in Tasks, tx_seq \in CachedSeqNums : CachedBeginFew(t, "remove", tx_seq)
    \/ \E t \in Tasks : CachedBegin(t, "count", 0, FALSE)
    \/ \E t \in Tasks : CachedCallStep(t)

SpecCached == InitCachedStored /\ [][NextCached]_vars

(***************************************************************************)
(* A CachedTxStore of any capacity on an empty store, called by            *)
(* MaxFewTasks tasks: add and remove without a batch, MaxCalls of them in  *)
(* all, and count.                                                         *)
(***************************************************************************)
NextCachedFew ==
    \/ \E t \in FewTasks, tx_seq \in CachedSeqNums : CachedBegin(t, "add", tx_seq, FALSE)
    \/ \E t \in FewTasks, tx_seq \in CachedSeqNums : CachedBegin(t, "remove", tx_seq, FALSE)
    \/ \E t \in FewTasks : CachedBegin(t, "count", 0, FALSE)
    \/ \E t \in FewTasks : CachedCallStep(t)

SpecCachedFew == InitCached /\ [][NextCachedFew]_vars

(***************************************************************************)
(* MaxTasks tasks making MaxCalls calls to add and remove, each with the    *)
(* caller's batch or without, and calls to random; the caller commits or   *)
(* drops its batch at any moment no call has it.                           *)
(***************************************************************************)
NextCachedBatch ==
    \/ \E t \in Tasks, tx_seq \in BatchSeqNums, batch \in BOOLEAN :
          CachedBegin(t, "add", tx_seq, batch)
    \/ \E t \in Tasks, tx_seq \in BatchSeqNums, batch \in BOOLEAN :
          CachedBegin(t, "remove", tx_seq, batch)
    \/ \E t \in Tasks : CachedBegin(t, "random", 0, FALSE)
    \/ \E t \in Tasks : CachedWriteLock(t)
    \/ \E t \in Tasks : CachedReadLock(t)
    \/ \E t \in Tasks : CachedAddHas(t)
    \/ \E t \in Tasks : CachedAddCount(t)
    \/ \E t \in Tasks : CachedRemoveIndex(t)
    \/ \E t \in Tasks : CachedRemoveCount(t)
    \/ \E t \in Tasks : CachedRemoveLast(t)
    \/ \E t \in Tasks : CachedCommit(t)
    \/ \E t \in Tasks : CachedAddFinish(t)
    \/ \E t \in Tasks : CachedRemoveFinish(t)
    \/ \E t \in Tasks : CachedRandomPick(t)
    \/ \E t \in Tasks : CachedRandomCount(t)
    \/ \E t \in Tasks : CachedRandomAt(t)
    \/ CachedCommitBatch
    \/ CachedDropBatch

SpecCachedBatch == InitCached /\ [][NextCachedBatch]_vars

(***************************************************************************)
(* A LogQuery over any filter, polled against a provider that succeeds or  *)
(* fails as it likes.                                                      *)
(***************************************************************************)
OptBlocks == {None} \cup {Some(b) : b \in Blocks}

InitLq ==
    /\ TxInit
    /\ CachedTxStoreNew(0)
    /\ provider = AnyProvider
    /\ \E f \in OptBlocks, t \in OptBlocks, p \in PageSizes :
          LogQueryNew([from |-> f, to |-> t], p)

NextLq ==
    \/ PollInitial
    \/ PollPending
    \/ PollSendRequest
    \/ PollLoadLastBlockOk
    \/ PollLoadLastBlockErr
    \/ PollLoadLogsOk
    \/ PollLoadLogsOverflow
    \/ PollLoadLogsErr
    \/ PollResumedAfterCompletion
    \/ PollConsumeLog
    \/ PollConsumeEnd
    \/ PollConsumeNextPage
    \/ PollConsumeUnderflow

SpecLq == InitLq /\ [][NextLq]_vars

(***************************************************************************)
(* A LogQuery over a range [a, b], a <= b, polled against a provider whose *)
(* get_logs always succeeds.                                               *)
(***************************************************************************)
InitLqOk ==
    /\ TxInit
    /\ CachedTxStoreNew(0)
    /\ provider = AnyProvider
    /\ \E a \in Blocks, b \in Blocks, p \in PageSizes :
          /\ a <= b
          /\ LogQueryNew([from |-> Some(a), to |-> Some(b)], p)

NextLqOk ==
    \/ PollInitial
    \/ PollPending
    \/ PollSendRequest
    \/ PollLoadLastBlockOk
    \/ PollLoadLogsOk
    \/ PollConsumeLog
    \/ PollConsumeEnd
    \/ PollConsumeNextPage

SpecLqOk == InitLqOk /\ [][NextLqOk]_vars

(***************************************************************************)
(* A LogQuery over a filter with a from-block (the range ends at the       *)
(* to-block or, with none, at the tip the provider reports), polled        *)
(* against a provider that answers every window of at most w blocks and    *)
(* rejects wider ones with an overflow hint. The consumer polls again      *)
(* after every wake, sleeps elapse and requests complete: a step that can  *)
(* be taken is taken in the end.                                           *)
(***************************************************************************)
\* More get_logs calls than any such query makes: every page but the last
\* moves the cursor on by a block or more, and a page is asked for again at
\* most once per halving of the page size.
RequestCap == (MaxBlock + 2) * (MaxPage + 1)

InitLqWidth ==
    /\ TxInit
    /\ CachedTxStoreNew(0)
    /\ \E a \in Blocks, t \in OptBlocks, p \in PageSizes, w \in Widths :
          /\ LogQueryNew([from |-> Some(a), to |-> t], p)
          /\ provider = WidthProvider(w)

NextLqWidth ==
    \/ PollInitial
    \/ PollPending
    \/ PollSendRequestUpTo(RequestCap)
    \/ PollLoadLastBlockOk
    \/ PollLoadLogsOkWithin
    \/ PollLoadLogsOverflowBeyond
    \/ PollConsumeLog
    \/ PollConsumeEnd
    \/ PollConsumeNextPage

SpecLqWidth == InitLqWidth /\ [][NextLqWidth]_vars /\ WF_vars(NextLqWidth)


(***************************************************************************)
(*                        Properties of TxStore                            *)
(***************************************************************************)
\* The tx_seq with a seq2index record, and the indices with an index2seq record.
SeqsOf(d) == {k[2] : k \in {x \in DOMAIN d : x[1] = "seq2index"}}
SlotsOf(d) == {k[2] : k \in {x \in DOMAIN d : x[1] = "index2seq"}}

\* C1: after any sequence of serialized, immediately committed add/remove
\* calls on an empty store, count is the number of tx_seq present, every
\* present tx_seq has an index below count whose slot holds it, every slot
\* below count holds a tx_seq whose index is that slot, and no slot at or
\* above count is present.
C1_EnumerableMap ==
    /\ count(store) = Cardinality(SeqsOf(store))
    /\ \A s \in SeqsOf(store) :
          /\ index_of(store, s)[1] \in 0..(count(store) - 1)
          /\ at(store, index_of(store, s)[1]) = Some(s)
    /\ \A i \in 0..(count(store) - 1) :
          /\ at(store, i) # None
          /\ index_of(store, at(store, i)[1]) = Some(i)
    /\ \A i \in SlotsOf(store) : i < count(store)

\* A remove that moved the last element into a freed slot, leaving two or more.
C1_Witness ==
    /\ call.op = "remove"
    /\ ret.tag = "Ok(true)"
    /\ count(store) >= 2
    /\ \E s \in SeqsOf(store) : index_of(store, s) # index_of(old_store, s)

\* C4: add without a batch returns true iff tx_seq was absent; then tx_seq
\* takes the slot equal to the previous count, count grows by one and every
\* other tx_seq keeps its slot; when it returns false nothing changes.
C4_AddContract ==
    (call.op = "add" /\ ~call.batch) =>
        /\ ret.tag \in {"Ok(true)", "Ok(false)"}
        /\ (ret.tag = "Ok(true)") <=> ~has(old_store, call.seq)
        /\ ret.tag = "Ok(true)" =>
              /\ index_of(store, call.seq) = Some(count(old_store))
              /\ at(store, count(old_store)) = Some(call.seq)
              /\ count(store) = count(old_store) + 1
              /\ \A s \in SeqNums \ {call.seq} :
                    index_of(store, s) = index_of(old_store, s)
        /\ ret.tag = "Ok(false)" => store = old_store

\* A third tx_seq newly added.
C4_Witness ==
    /\ call.op = "add"
    /\ ~call.batch
    /\ ret.tag = "Ok(true)"
    /\ count(old_store) = 2
    /\ count(store) = 3

\* C5: remove of an absent tx_seq returns false, leaves every record of the
\* store as it was and appends nothing to the caller's batch.
C5_RemoveAbsent ==
    (call.op = "remove" /\ ~has(old_store, call.seq)) =>
        /\ ret.tag = "Ok(false)"
        /\ store = old_store
        /\ db_tx = old_tx

\* An absent tx_seq removed with a batch that already holds writes, from a
\* store that is not empty.
C5_Witness ==
    /\ call.op = "remove"
    /\ call.batch
    /\ ~has(old_store, call.seq)
    /\ ret.tag = "Ok(false)"
    /\ old_tx # << >>
    /\ count(old_store) > 0

\* C6: remove without a batch of a tx_seq present at slot i of N returns
\* true; afterwards count is N-1, tx_seq has no index and slot N-1 is
\* absent; if i < N-1 the element that was last now sits at slot i; every
\* other element keeps its slot.
C6_RemoveSwap ==
    (call.op = "remove" /\ ~call.batch /\ has(old_store, call.seq)) =>
        LET i == index_of(old_store, call.seq)[1]
            N == count(old_store)
            last == at(old_store, N - 1)
        IN  /\ ret.tag = "Ok(true)"
            /\ count(store) = N - 1
            /\ index_of(store, call.seq) = None
            /\ at(store, N - 1) = None
            /\ i < N - 1 =>
                  /\ at(store, i) = last
                  /\ index_of(store, last[1]) = Some(i)
            /\ \A s \in SeqNums \ ({call.seq} \cup (IF i < N - 1 THEN {last[1]} ELSE {})) :
                  index_of(store, s) = index_of(old_store, s)
            /\ \A j \in (0..(N - 1)) \ {i, N - 1} : at(store, j) = at(old_store, j)

\* The second of four elements removed: the fourth takes its slot.
C6_Witness ==
    /\ call.op = "remove"
    /\ ~call.batch
    /\ ret.tag = "Ok(true)"
    /\ count(old_store) = 4
    /\ index_of(old_store, call.seq) = Some(1)
    /\ at(store, 1) = at(old_store, 3)

\* C7: random returns none iff count is 0; otherwise it never panics, every
\* result is a tx_seq present in the set and every present tx_seq is a
\* possible result.
C7_Random ==
    /\ ([tag |-> "Ok(None)", val |-> 0] \in random(store)) <=> (count(store) = 0)
    /\ count(store) > 0 =>
          random(store) = {[tag |-> "Ok(Some)", val |-> s] : s \in SeqsOf(store)}
    /\ call.op = "random" =>
          /\ ret.tag # "panic"
          /\ (ret.tag = "Ok(None)") <=> (count(store) = 0)
          /\ ret.tag = "Ok(Some)" => has(store, ret.val)

\* A draw from three elements, taken after a removal reordered the slots.
C7_Witness ==
    /\ call.op = "random"
    /\ ret.tag = "Ok(Some)"
    /\ count(store) = 3
    /\ at(store, 0) # Some(ret.val)
    /\ \E s \in SeqNums : ~has(store, s) /\ s < ret.val

(***************************************************************************)
(*                        Properties of LogQuery                           *)
(***************************************************************************)
IsPrefix(s, q) == Len(s) <= Len(q) /\ SubSeq(q, 1, Len(s)) = s

\* The window of the i-th get_logs call: <<from, to>>.
Window(i) == requests[i][1]

\* C2: over a range [a, b] with a provider that always succeeds, the logs
\* returned before end-of-sequence are the logs of blocks a..b in order: the
\* windows asked for start at a, each starts one block after the one before
\* ended, none is empty, and the last ends at b.
C2_EmitsRange ==
    LET a == filter.from[1]
        b == filter.to[1]
    IN  /\ IsPrefix(emitted, LogsOfRange(a, b))
        /\ \A i \in 1..Len(requests) :
              /\ requests[i] # None
              /\ Window(i)[1] <= Window(i)[2]
              /\ Window(i)[2] <= b
              /\ Window(i)[1] = IF i = 1 THEN a ELSE Window(i - 1)[2] + 1
        /\ out.tag = "End" =>
              /\ emitted = LogsOfRange(a, b)
              /\ requests # << >>
              /\ Window(Len(requests))[2] = b

\* A range read to its end in three pages or more.
C2_Witness ==
    /\ out.tag = "End"
    /\ Len(requests) >= 3
    /\ Len(emitted) >= 3
    /\ emitted = LogsOfRange(filter.from[1], filter.to[1])

\* C3: once poll_next has returned an error item, no later poll returns a
\* log record or a second error item: the polls after it return nothing.
C3_ErrorIsLast ==
    /\ err_count <= 1
    /\ err_count = 1 => out.tag \in {"LoadLastBlockError", "LoadLogsError", "panic"}

\* A query that returned logs, then an error, and was polled again.
C3_Witness ==
    /\ err_count = 1
    /\ out.tag = "panic"
    /\ emitted # << >>
    /\ state = "LoadLogs"

\* C8: when a get_logs call fails with an overflow hint, no error item is
\* returned, the cursor is back on the from-block of the failed page,
\* page_size is halved, the next get_logs call starts at that from-block
\* with a narrower window, and the stream neither ends nor stops before
\* that call is made.
C8_OverflowRetried ==
    overflowed # None =>
        LET o == overflowed[1]
            failed == o.req[1]
        IN  /\ (Len(requests) = o.sent /\ state = "Consume") =>
                  /\ out.tag \notin {"LoadLogsError", "LoadLastBlockError"}
                  /\ from_block = IF o.req = None THEN None ELSE Some(failed[1])
                  /\ page_size = o.page_size \div 2
            /\ Len(requests) = o.sent => out.tag \notin {"End", "panic"}
            /\ Len(requests) > o.sent =>
                  /\ o.req # None
                  /\ requests[o.sent + 1] # None
                  /\ Window(o.sent + 1)[1] = failed[1]
                  /\ Window(o.sent + 1)[2] - Window(o.sent + 1)[1] < failed[2] - failed[1]

\* C9: 1 <= page_size <= expected_page_size in every state, and page_size is
\* expected_page_size after a page was loaded.
C9_PageSizeBounds ==
    /\ 1 <= page_size
    /\ page_size <= expected_page_size
    /\ (/\ state = "Consume"
        /\ requests # << >>
        /\ (overflowed = None \/ Len(requests) > overflowed[1].sent))
          => page_size = expected_page_size

\* C10: once last_block is resolved, from_block <= last_block + 1.
C10_CursorBound ==
    (is_paginatable(filter) /\ last_block # None) => from_block[1] <= last_block[1] + 1


\* C11: every request to the provider, the tip resolution as well as each
\* get_logs call, is made by a future that has first slept for delay: no
\* request is with the provider unless its own sleep came just before it.
C11_SleepBeforeRpc == fut.stage = "rpc" => fut.slept

\* C12: for a filter that is not paginatable, at most one get_logs request
\* is ever made and it carries the filter as given; the tip is never
\* resolved; the logs of the reply are emitted in the reply's order, and the
\* end of the stream comes after that single request with the buffer empty.
C12_SingleCall ==
    ~is_paginatable(filter) =>
        /\ Len(requests) <= 1
        /\ \A i \in 1..Len(requests) : requests[i] = None
        /\ state # "LoadLastBlock"
        /\ fut.kind \notin {"get_block_number", "ok_number"}
        /\ last_block = None
        /\ (state = "Consume" /\ overflowed = None) =>
               emitted \o current_logs \in UnfilteredReplies
        /\ out.tag = "End" => (current_logs = << >> /\ Len(requests) = 1)

\* A stream over such a filter has emitted the three or more logs of its one
\* reply and ended.
C12_Witness ==
    /\ ~is_paginatable(filter)
    /\ out.tag = "End"
    /\ overflowed = None
    /\ Len(emitted) >= 3
    /\ emitted \in UnfilteredReplies

\* Every write of tx shows in after: a key written holds what its last write
\* left, every other key what it held in before.
WritesVisible(before, tx, after) ==
    LET written == {tx[i].key : i \in 1..Len(tx)}
        last(k) == tx[CHOOSE i \in 1..Len(tx) :
                         tx[i].key = k /\ \A j \in (i + 1)..Len(tx) : tx[j].key # k]
    IN  \A k \in DOMAIN before \cup DOMAIN after \cup written :
            get_config_decoded(after, k) =
                IF k \in written
                THEN IF last(k).op = "set" THEN Some(last(k).val) ELSE None
                ELSE get_config_decoded(before, k)

\* C13: an add or remove given the caller's batch leaves the store as it
\* was and only appends its writes to the batch (none when it returns
\* false); the writes show in the store when the caller commits, all of
\* them together. An add or remove given no batch leaves all of its own
\* writes in the store when it returns true and none otherwise, and the
\* caller's batch as it was.
C13_BatchDeferred ==
    /\ (call.op \in {"add", "remove"} /\ call.batch) =>
          /\ store = old_store
          /\ IsPrefix(old_tx, db_tx)
          /\ ret.tag = "Ok(true)" =>
                /\ \E i \in (Len(old_tx) + 1)..Len(db_tx) :
                       db_tx[i].key = key_seq_to_index(call.seq)
                /\ \E i \in (Len(old_tx) + 1)..Len(db_tx) : db_tx[i].key = key_count
          /\ ret.tag # "Ok(true)" => db_tx = old_tx
    /\ call.op = "commit" =>
          /\ db_tx = << >>
          /\ WritesVisible(old_store, old_tx, store)
    /\ (call.op = "remove" /\ ~call.batch) =>
          /\ db_tx = old_tx
          /\ ret.tag = "Ok(true)" =>
                WritesVisible(old_store, remove(old_store, call.seq).tx, store)
          /\ ret.tag # "Ok(true)" => store = old_store
    /\ (call.op = "add" /\ ~call.batch) =>
          /\ db_tx = old_tx
          /\ ret.tag = "Ok(true)" =>
                /\ WritesVisible(old_store, add(old_store, call.seq).tx, store)
                /\ has(store, call.seq)
          /\ ret.tag # "Ok(true)" => store = old_store

\* An add given a batch that already holds the writes of another call: the
\* store does not have the tx_seq although the call returned true.
C13_Witness ==
    /\ call.op = "add"
    /\ call.batch
    /\ ret.tag = "Ok(true)"
    /\ Len(old_tx) >= 3
    /\ Len(db_tx) = Len(old_tx) + 3
    /\ ~has(store, call.seq)

\* The TxStore invariants on a store d (those of C1).
EnumerableMap(d) ==
    /\ count(d) = Cardinality(SeqsOf(d))
    /\ \A s \in SeqsOf(d) :
          /\ index_of(d, s)[1] \in 0..(count(d) - 1)
          /\ at(d, index_of(d, s)[1]) = Some(s)
    /\ \A i \in 0..(count(d) - 1) :
          /\ at(d, i) # None
          /\ index_of(d, at(d, i)[1]) = Some(i)
    /\ \A i \in SlotsOf(d) : i < count(d)

\* Task t is inside TxStore::add / remove: at one of its reads, or between
\* its reads and its commit.
InTxStore(t) ==
    /\ tasks[t].op \in {"add", "remove"}
    /\ tasks[t].pc \in {"has", "index", "count", "last", "commit"}

\* No two tasks are inside TxStore at once, and when every call has returned
\* the store satisfies the TxStore invariants.
Serialized ==
    /\ \A t \in Tasks, u \in Tasks : (t # u) => ~(InTxStore(t) /\ InTxStore(u))
    /\ (\A t \in Tasks : tasks[t].pc = "idle") => EnumerableMap(store)

\* C14 as stated: for every cache_cap, 0 included, adds and removes of
\* concurrent tasks (no batch) never overlap inside TxStore, and the
\* TxStore invariants hold once all of them have returned.
C14_SerializedAnyCap == cache_cap >= 0 => Serialized

\* C14 amended: for cache_cap > 0, adds and removes of concurrent tasks (no
\* batch) never overlap inside TxStore, and the TxStore invariants hold once
\* all of them have returned.
C14_SerializedWhenCaching == cache_cap > 0 => Serialized

\* With cache_cap > 0 one task is between its reads and its commit of an add
\* while another, adding a different tx_seq, waits for the write guard.
C14_Witness ==
    /\ cache_cap > 0
    /\ \E t \in Tasks, u \in Tasks :
          /\ tasks[t].pc = "commit" /\ tasks[t].op = "add"
          /\ tasks[t].r.ret = "Ok(true)"
          /\ tasks[u].pc = "lock" /\ tasks[u].op = "add"
          /\ tasks[u].seq # tasks[t].seq

\* C15: the cache never holds more than cache_cap elements once an add or
\* remove has returned (none at all when cache_cap is 0); while no remove
\* has succeeded it holds min(successful adds, cache_cap) elements, so
\* exactly cache_cap once more than cache_cap were added; and a count that
\* reports more than cache_cap durable elements then reports a cache of
\* exactly cache_cap.
C15_CacheBound ==
    /\ Cardinality(cache) <= cache_cap
    /\ Cardinality(done.cache1) <= cache_cap
    /\ hist.removes = 0 =>
          Cardinality(cache) = min(hist.adds, cache_cap)
    /\ (done.op = "count" /\ hist.removes = 0 /\ done.val[1] > cache_cap) =>
          done.val[2] = cache_cap

\* cache_cap 2, three adds returned true, no remove: count reports (3, 2).
C15_Witness ==
    /\ cache_cap = 2
    /\ hist.adds = 3
    /\ hist.removes = 0
    /\ done.op = "count"
    /\ done.val = <<3, 2>>
    /\ Cardinality(cache) = 2

\* C16: when an add returns true with cache_cap > 0, the tx_seq it added is
\* in the cache, and whatever it evicted was in the cache before the add.
C16_EvictsOld ==
    (done.op = "add" /\ done.ret = "Ok(true)" /\ cache_cap > 0) =>
        /\ done.seq \in done.cache1
        /\ (done.cache0 \cup {done.seq}) \ done.cache1 \subseteq done.cache0 \ {done.seq}

\* C20: with cache_cap > 0 and the store mutated only through the wrapper,
\* by any interleaving of tasks, with or without a batch that the caller
\* later commits or drops: whenever no call holds the write guard every
\* element of the cache is present in the store, and random never returns a
\* tx_seq that the store does not have.
C20_CacheDurable ==
    cache_cap > 0 =>
        /\ lock.writer = 0 => \A s \in cache : has(store, s)
        /\ (done.op = "random" /\ done.ret = "Ok(Some)") => done.in_store

\* C17: when the get_logs call for the page [from, to] fails with an error
\* that is no overflow hint, LoadLogsError is returned with the cursor not
\* advanced past the failed page: from_block <= from at that moment.
C17_CursorNotAdvanced ==
    (out.tag = "LoadLogsError" /\ is_paginatable(filter)) =>
        /\ from_block # None
        /\ from_block[1] <= fut.req[1][1]

\* The corruption C18 names, for a tx_seq the store has an index for: the
\* slot of that index is absent, or count is 0, or the index is not below
\* count.
Corrupted(d, tx_seq) ==
    LET i == index_of(d, tx_seq)[1]
    IN  \/ at(d, i) = None
        \/ count(d) = 0
        \/ i >= count(d)

\* C18: remove of a tx_seq whose records are corrupted in that way panics
\* and writes nothing, neither to the store nor to the caller's batch; it
\* never returns true.
C18_RemoveFailsLoudly ==
    (call.op = "remove" /\ has(old_store, call.seq) /\ Corrupted(old_store, call.seq)) =>
        /\ ret.tag = "panic"
        /\ store = old_store
        /\ db_tx = old_tx

\* C19: when the caller commits a batch, the committed store satisfies the
\* TxStore invariants, whatever adds and removes were appended to the batch
\* since the last commit.
C19_BatchKeepsInvariants == call.op = "commit" => EnumerableMap(store)

\* C21: a query over a filter with a from-block, against a provider that
\* answers every window of at most w blocks (w >= 1) and rejects wider ones
\* with an overflow hint, returns the end of the stream in the end, having
\* made fewer than RequestCap get_logs calls: it does not ask for the same
\* window for ever.
C21_Terminates == <>(out.tag = "End") /\ [](Len(requests) < RequestCap)

\* The stream has ended after a window was rejected and asked for again in
\* halves, four or more get_logs calls in all.
C21_Witness ==
    /\ out.tag = "End"
    /\ overflowed # None
    /\ Len(requests) >= 4
    /\ page_size = expected_page_size

=============================================================================
